---- MODULE Spec2Model ----
(***************************************************************************)
(* Model of the dinosaur app's two route handlers:                         *)
(*   routes/index.tsx       GET /            (list endpoint)               *)
(*   routes/[dinosaur].tsx  GET /<dinosaur>  (detail endpoint)             *)
(* Each handler reads data/dinosaurs.json, parses it, validates it (list)  *)
(* or searches it (detail), collapses typed failures to a safe default and *)
(* hands the result to ctx.render.  The only suspension point of a request *)
(* is the asynchronous file read; the continuation runs to completion.     *)
(***************************************************************************)
EXTENDS Integers, Sequences, FiniteSets, TLC

\* Longest array the data file holds.
MaxLen == 2
\* Number of requests served (they may overlap at the file read).
NumRequests == 2

Requests == 1..NumRequests

(***************************************************************************)
(* Text.  A string is a sequence of characters; toLowerCase maps each      *)
(* character to its lower-case form.                                       *)
(***************************************************************************)
LowerChar(c) ==
    CASE c = "R" -> "r"
      [] c = "X" -> "x"
      [] c = "A" -> "a"
      [] c = "Z" -> "z"
      [] OTHER -> c

toLowerCase(s) == [i \in 1..Len(s) |-> LowerChar(s[i])]

\* Names requested directly by URL: one that matches the file's "Rx" and
\* "rX" ignoring case only, and one the file never holds.
ReqNames == {<<"R", "X">>, <<"Z">>}

(***************************************************************************)
(* JSON values as JSON.parse produces them.                                *)
(***************************************************************************)
Absent == [t |-> "absent"]
JNull == [t |-> "null"]
JNum == [t |-> "number"]
JStr(s) == [t |-> "string", s |-> s]
JObj(n, d) == [t |-> "object", name |-> n, description |-> d]
JArr(items) == [t |-> "array", items |-> items]
Undefined == [t |-> "undefined"]

\* Array elements: non-objects, objects lacking a text name or a text
\* description, and well-shaped records (two of them differ only in case).
Elements ==
    { JNull, JNum,
      JObj(Absent, JStr(<<"d", "1">>)),
      JObj(JNum, JStr(<<"d", "1">>)),
      JObj(JStr(<<"R", "x">>), Absent),
      JObj(JStr(<<"A">>), JNum),
      JObj(JStr(<<"R", "x">>), JStr(<<"d", "1">>)),
      JObj(JStr(<<"r", "X">>), JStr(<<"d", "2">>)),
      JObj(JStr(<<"A">>), JStr(<<"d", "1">>)) }

JsonValues ==
    { JNull, JNum, JObj(JStr(<<"R", "x">>), JStr(<<"d", "1">>)) }
    \cup { JArr(s) : s \in UNION { [1..n -> Elements] : n \in 0..MaxLen } }

\* The data file: missing, unreadable, or present with a text that is either
\* malformed or the serialisation of a JSON value.
Files ==
    { [status |-> "missing"], [status |-> "denied"],
      [status |-> "present", text |-> [wellFormed |-> FALSE]] }
    \cup { [status |-> "present", text |-> [wellFormed |-> TRUE, value |-> v]] :
             v \in JsonValues }

(***************************************************************************)
(* Error classes and Effect exits.                                         *)
(***************************************************************************)
FileReadError(e) == [tag |-> "FileReadError", error |-> e]
ParseError(e) == [tag |-> "ParseError", error |-> e]
DataFormatError(m) == [tag |-> "DataFormatError", message |-> m]
DinoNotFoundError(n) == [tag |-> "DinoNotFoundError", name |-> n]
TypeError == [tag |-> "TypeError"]
NoError == [tag |-> "none"]

Succeed(v) == [exit |-> "Success", value |-> v]
Fail(e) == [exit |-> "Fail", error |-> e]
Die(e) == [exit |-> "Die", error |-> e]

\* What a thunk does: return a value or throw.  Causes are what
\* Deno.readTextFile and JSON.parse throw.
Causes == {"missing", "denied", "SyntaxError"}
Returned(v) == [threw |-> FALSE, value |-> v]
Threw(e) == [threw |-> TRUE, error |-> e]

VARIABLES
    file,      \* the data file (never written by the program)
    page,      \* links of the index page most recently rendered by Home
    pc,        \* per request: "idle", "reading" (awaiting the read), "done"
    route,     \* per request: "index" or "dinosaur"
    param,     \* per request: ctx.params.dinosaur
    trace,     \* per request: the stages that ran, in order
    logged,    \* per request: the error handed to console.error, if any
    outcome,   \* per request: what GET settled with
    prior      \* per request: the requests already finished when it began

vars == <<file, page, pc, route, param, trace, logged, outcome, prior>>

Pending == [kind |-> "pending"]
Rendered(d) == [kind |-> "rendered", data |-> d]
Rejected(e) == [kind |-> "rejected", error |-> e]

(***************************************************************************)
(* Platform and library operations the handlers call.                      *)
(***************************************************************************)
\* Deno.readTextFile("data/dinosaurs.json"): the text, or a rejection.
Deno_readTextFile ==
    IF file.status = "present" THEN Returned(file.text) ELSE Threw(file.status)

\* JSON.parse(data): the value, or a SyntaxError.
JSON_parse(data) ==
    IF data.wellFormed THEN Returned(data.value) ELSE Threw("SyntaxError")

\* The catch functions (error) => new FileReadError(error) and
\* (error) => new ParseError(error).
AsFileReadError == [error \in Causes |-> FileReadError(error)]
AsParseError == [error \in Causes |-> ParseError(error)]

\* Effect.try / Effect.tryPromise: a throw becomes a typed failure built by
\* the catch function.
Effect_try(try, catch) ==
    IF try.threw THEN Fail(catch[try.error]) ELSE Succeed(try.value)

\* A throw inside the body of Effect.gen is a defect, not a typed failure.
Effect_sync(try) ==
    IF try.threw THEN Die(try.error) ELSE Succeed(try.value)

\* Effect.catchAll recovers typed failures only; defects pass through.
Effect_catchAll(self, fallback) ==
    IF self.exit = "Fail" THEN Succeed(fallback) ELSE self

\* Effect.runPromise followed by ctx.render: a success is rendered, anything
\* else rejects the promise GET returns.
Settle(exit) ==
    IF exit.exit = "Success" THEN Rendered(exit.value) ELSE Rejected(exit.error)

(***************************************************************************)
(* routes/index.tsx                                                        *)
(***************************************************************************)
\* Variant: the rejection of the read is not caught (Effect.promise).
Index_readDinoFile_uncaught == Effect_sync(Deno_readTextFile)

\* Variant: the read fails while another request holds the file open.
Index_readDinoFile_busy ==
    IF Cardinality({q \in Requests : pc[q] = "reading"}) >= 2
    THEN Fail(FileReadError("busy"))
    ELSE Effect_try(Deno_readTextFile, AsFileReadError)

Index_readDinoFile == Effect_try(Deno_readTextFile, AsFileReadError)

parseDinoData(data) == Effect_try(JSON_parse(data), AsParseError)

isValidDinoData(item) ==
    /\ item.t = "object"
    /\ item.name.t # "absent"
    /\ item.name.t = "string"
    /\ item.description.t # "absent"
    /\ item.description.t = "string"

\* Variant: invalid elements are filtered out instead of failing the whole.
validateDinoArray_filtering(data) ==
    IF data.t # "array"
    THEN Fail(DataFormatError("Data is not in expected array format"))
    ELSE Succeed(JArr(SelectSeq(data.items, isValidDinoData)))

validateDinoArray(data) ==
    IF data.t # "array"
    THEN Fail(DataFormatError("Data is not in expected array format"))
    ELSE IF ~ \A i \in 1..Len(data.items) : isValidDinoData(data.items[i])
    THEN Fail(DataFormatError("Some items in array are not valid DinoData"))
    ELSE Succeed(data)

\* The generator of GET: read, parse, validate; the first failure ends it.
Index_program ==
    LET fileContent == Index_readDinoFile IN
    IF fileContent.exit # "Success"
    THEN [result |-> fileContent, trace |-> <<"read">>]
    ELSE LET parsedData == parseDinoData(fileContent.value) IN
         IF parsedData.exit # "Success"
         THEN [result |-> parsedData, trace |-> <<"read", "parse">>]
         ELSE [result |-> validateDinoArray(parsedData.value),
               trace |-> <<"read", "parse", "validate">>]

\* The page component: one link per record, to its lower-cased name.
Home(data) ==
    LET dinosaurs == IF data.t = "array" THEN data.items ELSE <<>> IN
    [i \in 1..Len(dinosaurs) |->
        [href |-> toLowerCase(dinosaurs[i].name.s), text |-> dinosaurs[i].name.s]]

(***************************************************************************)
(* routes/[dinosaur].tsx                                                   *)
(***************************************************************************)
\* Variant: file handles leak, so the read fails once a request has finished.
Dino_readDinoFile_exhausted ==
    IF \E q \in Requests : pc[q] = "done"
    THEN Fail(FileReadError("exhausted"))
    ELSE Effect_try(Deno_readTextFile, AsFileReadError)

Dino_readDinoFile == Effect_try(Deno_readTextFile, AsFileReadError)

parseDinos(data) == Effect_try(JSON_parse(data), AsFileReadError)

\* Variant: the names are compared as they are (d.name === name).
NameMatches_exact(d, name) ==
    IF d.t = "object" /\ d.name.t = "string"
    THEN Returned(d.name.s = name)
    ELSE Threw(TypeError)

\* d.name.toLowerCase() === name.toLowerCase(); throws a TypeError unless d
\* is an object whose name is a string.
NameMatches(d, name) ==
    IF d.t = "object" /\ d.name.t = "string"
    THEN Returned(toLowerCase(d.name.s) = toLowerCase(name))
    ELSE Threw(TypeError)

\* dinos.find(predicate) from index i on: the first element the predicate
\* accepts, undefined when there is none; a throw of the predicate escapes.
RECURSIVE ArrayFind(_, _, _)
ArrayFind(items, name, i) ==
    IF i > Len(items) THEN Returned(Undefined)
    ELSE LET m == NameMatches(items[i], name) IN
         IF m.threw THEN m
         ELSE IF m.value THEN Returned(items[i])
         ELSE ArrayFind(items, name, i + 1)

\* Variant: the scan keeps the last match (findLast).
RECURSIVE ArrayFindLast(_, _, _)
ArrayFindLast(items, name, i) ==
    IF i < 1 THEN Returned(Undefined)
    ELSE LET m == NameMatches(items[i], name) IN
         IF m.threw THEN m
         ELSE IF m.value THEN Returned(items[i])
         ELSE ArrayFindLast(items, name, i - 1)
find_last(dinos, name) ==
    IF dinos.t = "array"
    THEN ArrayFindLast(dinos.items, name, Len(dinos.items))
    ELSE Threw(TypeError)

\* dinos.find is not a function unless dinos is an array.
find(dinos, name) ==
    IF dinos.t = "array" THEN ArrayFind(dinos.items, name, 1) ELSE Threw(TypeError)

\* Effect.fromNullable(dinos.find(..)) with the miss mapped to
\* DinoNotFoundError; the find itself runs in the generator body.
findDino(name, dinos) ==
    LET found == Effect_sync(find(dinos, name)) IN
    IF found.exit # "Success" THEN found
    ELSE IF found.value = Undefined THEN Fail(DinoNotFoundError(name))
    ELSE found

Dino_program(name) ==
    LET fileData == Dino_readDinoFile IN
    IF fileData.exit # "Success"
    THEN [result |-> fileData, trace |-> <<"read">>]
    ELSE LET dinos == parseDinos(fileData.value) IN
         IF dinos.exit # "Success"
         THEN [result |-> dinos, trace |-> <<"read", "parse">>]
         ELSE [result |-> findDino(name, dinos.value),
               trace |-> <<"read", "parse", "find">>]

(***************************************************************************)
(* The handlers.  GET runs up to the await of the file read (Begin); when  *)
(* the read settles the rest of the handler runs without suspending.       *)
(***************************************************************************)
\* The stages of the continuation: the program, the catchAll handler when a
\* typed failure reaches it, and ctx.render when runPromise resolves.
Run(program, fallback) ==
    LET caught == program.result.exit = "Fail"
        final == Effect_catchAll(program.result, fallback)
    IN  [outcome |-> Settle(final),
         logged |-> IF caught THEN program.result.error ELSE NoError,
         trace |-> program.trace
                     \o (IF caught THEN <<"catch">> ELSE <<>>)
                     \o (IF final.exit = "Success" THEN <<"render">> ELSE <<>>)]

Init ==
    /\ file \in Files
    /\ page = <<>>
    /\ pc = [r \in Requests |-> "idle"]
    /\ route = [r \in Requests |-> "none"]
    /\ param = [r \in Requests |-> <<>>]
    /\ trace = [r \in Requests |-> <<>>]
    /\ logged = [r \in Requests |-> NoError]
    /\ outcome = [r \in Requests |-> Pending]
    /\ prior = [r \in Requests |-> {}]

\* Requests are numbered in arrival order: r is the next one to arrive.
NextToArrive(r) ==
    /\ pc[r] = "idle"
    /\ \A q \in Requests : q < r => pc[q] # "idle"

\* GET is invoked and runs up to the await of the file read.
Begin(r, rt, name) ==
    /\ pc' = [pc EXCEPT ![r] = "reading"]
    /\ route' = [route EXCEPT ![r] = rt]
    /\ param' = [param EXCEPT ![r] = name]
    /\ prior' = [prior EXCEPT ![r] = {q \in Requests : pc[q] = "done"}]
    /\ UNCHANGED <<file, page, trace, logged, outcome>>

\* GET / is requested.
Index_GET(r) ==
    /\ NextToArrive(r)
    /\ Begin(r, "index", <<>>)

\* GET /<name> is requested with a name typed into the URL.
Dino_GET(r) ==
    /\ NextToArrive(r)
    /\ \E name \in ReqNames : Begin(r, "dinosaur", name)

\* GET /<name> is requested by following a link of the index page.
FollowLink(r) ==
    /\ NextToArrive(r)
    /\ \E i \in 1..Len(page) : Begin(r, "dinosaur", page[i].href)

Finish(r, run) ==
    /\ pc' = [pc EXCEPT ![r] = "done"]
    /\ trace' = [trace EXCEPT ![r] = run.trace]
    /\ logged' = [logged EXCEPT ![r] = run.logged]
    /\ outcome' = [outcome EXCEPT ![r] = run.outcome]
    /\ UNCHANGED <<file, route, param, prior>>

\* The read of a list request settles: parse, validate, collapse, render.
Index_resume(r) ==
    /\ pc[r] = "reading"
    /\ route[r] = "index"
    /\ LET run == Run(Index_program, JArr(<<>>)) IN
       /\ Finish(r, run)
       /\ page' = IF run.outcome.kind = "rendered" THEN Home(run.outcome.data)
                  ELSE page

\* The read of a detail request settles: parse, find, collapse, render.
Dino_resume(r) ==
    /\ pc[r] = "reading"
    /\ route[r] = "dinosaur"
    /\ Finish(r, Run(Dino_program(param[r]), JNull))
    /\ UNCHANGED page

Next ==
    \E r \in Requests :
        \/ Index_GET(r)
        \/ Dino_GET(r)
        \/ FollowLink(r)
        \/ Index_resume(r)
        \/ Dino_resume(r)

Spec == Init /\ [][Next]_vars

(***************************************************************************)
(* Vocabulary of the properties.                                           *)
(***************************************************************************)
Done(r) == pc[r] = "done"
IsList(r) == route[r] = "index"
IsDetail(r) == route[r] = "dinosaur"
Parsed == file.status = "present" /\ file.text.wellFormed
EmptyList == JArr(<<>>)

\* Equality of two texts ignoring case, stated on the letters themselves.
CasePairs == {{"R", "r"}, {"X", "x"}, {"A", "a"}, {"Z", "z"}}
EqIgnoreCase(a, b) ==
    /\ Len(a) = Len(b)
    /\ \A i \in 1..Len(a) : a[i] = b[i] \/ {a[i], b[i]} \in CasePairs

\* A record with a text name and a text description.
IsText(p) == p.t = "string"
IsDinoRecord(e) ==
    e.t = "object" /\ IsText(e.name) /\ IsText(e.description)
IsDinoArray(v) ==
    v.t = "array" /\ \A i \in 1..Len(v.items) : IsDinoRecord(v.items[i])

\* Indexes of the records of a sequence whose name is the given one, ignoring case.
Matches(items, name) ==
    {i \in 1..Len(items) : EqIgnoreCase(items[i].name.s, name)}
Least(S) == CHOOSE i \in S : \A j \in S : i <= j

Count(tr, stage) == Cardinality({i \in 1..Len(tr) : tr[i] = stage})
Position(tr, stage) == CHOOSE i \in 1..Len(tr) : tr[i] = stage
Overlapped(r1, r2) == r1 # r2 /\ r1 \notin prior[r2] /\ r2 \notin prior[r1]
SameRequest(r1, r2) == route[r1] = route[r2] /\ param[r1] = param[r2]

(***************************************************************************)
(* Properties.                                                             *)
(***************************************************************************)

\* C1: whatever the data file holds and whatever name is requested, every
\* finished request ended in a call of render with a safe value: the list
\* handler with the validated sequence or the empty sequence, the detail
\* handler with a matched record or null; nothing escapes the handler.
C1_EveryRequestRendersSafeValue ==
    \A r \in Requests : Done(r) =>
        /\ outcome[r].kind = "rendered"
        /\ IsList(r) =>
              \/ outcome[r].data = EmptyList
              \/ Parsed /\ IsDinoArray(file.text.value)
                        /\ outcome[r].data = file.text.value
        /\ IsDetail(r) =>
              \/ outcome[r].data = JNull
              \/ /\ Parsed /\ file.text.value.t = "array"
                 /\ \E i \in 1..Len(file.text.value.items) :
                       /\ outcome[r].data = file.text.value.items[i]
                       /\ IsText(outcome[r].data.name)
                       /\ EqIgnoreCase(outcome[r].data.name.s, param[r])

\* C2: when the file read fails, a finished list request rendered the empty
\* list and a finished detail request rendered null, for every name.
C2_MissingFileRendersSafeDefault ==
    file.status # "present" =>
        \A r \in Requests : Done(r) =>
            outcome[r] = Rendered(IF IsList(r) THEN EmptyList ELSE JNull)

C2_Witness ==
    /\ file.status = "missing"
    /\ \E r1, r2 \in Requests :
          Done(r1) /\ Done(r2) /\ IsList(r1) /\ IsDetail(r2)

\* C3: list validation is all-or-nothing: for a parsed value v the list
\* handler renders exactly v when v is an array of records with a text name
\* and a text description, and the empty list otherwise.
C3_ListIsAllOrNothing ==
    \A r \in Requests : Done(r) /\ IsList(r) /\ Parsed =>
        outcome[r] = Rendered(IF IsDinoArray(file.text.value)
                              THEN file.text.value ELSE EmptyList)

C3_Witness ==
    \E r \in Requests :
        /\ Done(r) /\ IsList(r) /\ Parsed
        /\ file.text.value.t = "array"
        /\ Len(file.text.value.items) >= 2
        /\ outcome[r] = Rendered(file.text.value)

\* C4: over a sequence of DinoRecords the lookup returns the record of lowest
\* index whose name equals the requested name ignoring case; when none
\* matches it fails with a DinoNotFoundError carrying the requested name and
\* the handler renders null.
C4_LookupReturnsFirstMatch ==
    \A r \in Requests :
        Done(r) /\ IsDetail(r) /\ Parsed /\ IsDinoArray(file.text.value) =>
            LET items == file.text.value.items
                m == Matches(items, param[r])
            IN  IF m # {}
                THEN outcome[r] = Rendered(items[Least(m)]) /\ logged[r] = NoError
                ELSE /\ logged[r] = DinoNotFoundError(param[r])
                     /\ outcome[r] = Rendered(JNull)

C4_Witness ==
    \E r \in Requests :
        /\ Done(r) /\ IsDetail(r) /\ Parsed /\ IsDinoArray(file.text.value)
        /\ Cardinality(Matches(file.text.value.items, param[r])) >= 2
        /\ outcome[r].kind = "rendered"
        /\ outcome[r].data.t = "object"

\* C5: the failure that reaches the outermost catch names the stage that
\* failed: FileReadError only for a failed read, ParseError for malformed
\* JSON, DataFormatError for a wrong shape (its reason telling the two shapes
\* apart), DinoNotFoundError for a lookup miss; no two different causes
\* reach the catch with the same kind and reason.
FailedStage(r) == trace[r][Position(trace[r], "catch") - 1]
C5_FailureIdentifiesStage ==
    /\ \A r \in Requests : Done(r) /\ logged[r] # NoError =>
          /\ logged[r].tag = "FileReadError" => FailedStage(r) = "read"
          /\ FailedStage(r) = "parse" => logged[r].tag = "ParseError"
          /\ FailedStage(r) = "validate" =>
                /\ logged[r].tag = "DataFormatError"
                /\ (logged[r].message = "Data is not in expected array format")
                      <=> (file.text.value.t # "array")
          /\ FailedStage(r) = "find" => logged[r].tag = "DinoNotFoundError"
    /\ \A r1, r2 \in Requests :
          /\ Done(r1) /\ Done(r2)
          /\ logged[r1] # NoError /\ logged[r1].tag = logged[r2].tag
          => FailedStage(r1) = FailedStage(r2)

\* C6: every record handed to render, each element of the list and the
\* detail record when it is not null, has a name and a description of text
\* type, whatever the data file holds.
C6_RenderedRecordsAreWellShaped ==
    \A r \in Requests : Done(r) /\ outcome[r].kind = "rendered" =>
        /\ IsList(r) => IsDinoArray(outcome[r].data)
        /\ IsDetail(r) =>
              outcome[r].data = JNull \/ IsDinoRecord(outcome[r].data)

Rank(stage) ==
    CASE stage = "read" -> 1
      [] stage = "parse" -> 2
      [] stage \in {"validate", "find"} -> 3
      [] stage = "catch" -> 4
      [] stage = "render" -> 5
C9_StagesInOrderThenOneRender ==
    \A r \in Requests : Done(r) =>
        LET tr == trace[r] IN
        /\ \A i, j \in 1..Len(tr) : i < j => Rank(tr[i]) < Rank(tr[j])
        /\ tr[1] = "read"
        /\ file.status # "present" => Count(tr, "parse") = 0
        /\ ~Parsed => Count(tr, "validate") + Count(tr, "find") = 0
        /\ Count(tr, "catch") = (IF outcome[r].kind = "rendered"
                                    /\ logged[r] = NoError THEN 0 ELSE 1)
        /\ Count(tr, "render") = 1
        /\ tr[Len(tr)] = "render"

\* C10: index links resolve: for every record the list endpoint rendered, a
\* detail request for its link target (the name lower-cased) renders a
\* record whose name equals the record's name ignoring case, the first such
\* record in file order, and never not-found.
C10_IndexLinksResolve ==
    \A q \in Requests : \A i \in 1..Len(page) :
        Done(q) /\ IsDetail(q) /\ param[q] = page[i].href =>
            /\ outcome[q].kind = "rendered"
            /\ outcome[q].data.t = "object"
            /\ EqIgnoreCase(outcome[q].data.name.s, page[i].text)
            /\ outcome[q].data =
                  file.text.value.items[
                      Least(Matches(file.text.value.items, page[i].text))]

C10_Witness ==
    \E q \in Requests : \E i \in 1..Len(page) :
        /\ Done(q) /\ IsDetail(q) /\ param[q] = page[i].href
        /\ outcome[q].kind = "rendered"
        /\ outcome[q].data.t = "object"
        /\ outcome[q].data.name.s # page[i].text
        /\ i > 1
====
